---------------------------- MODULE Spec2Model ----------------------------
(***************************************************************************)
(* typst2ansi (src/main.rs): the input-normalisation pipeline of main and  *)
(* the pure function unwrap_codeblock.                                     *)
(*                                                                         *)
(* Text is a sequence of characters, each named by a string: BT is the     *)
(* backtick and ESC is U+001B.  Every character is ASCII, so Rust's        *)
(* byte offsets and the character positions used here coincide (and in     *)
(* the code every slice index is a char boundary: 3 follows three ASCII    *)
(* backticks, line_end is the offset of an ASCII line feed, and the end    *)
(* index precedes an ASCII suffix).                                        *)
(*                                                                         *)
(* Two specifications:                                                     *)
(*   Spec        the run of main: parse, read, unwrap, strip, highlight;   *)
(*   UnwrapSpec  unwrap_codeblock applied to a text, then to its result.   *)
(***************************************************************************)
EXTENDS Integers, Sequences, FiniteSets

VARIABLES
    pc,         \* position of the run (Spec) or of the applications (UnwrapSpec)
    args,       \* main's `args`: the flags of Args the pipeline reads
    given,      \* history: the options that were on the command line
    acquired,   \* history: the text as it was read
    input,      \* main's `input` (overwritten by the strip stage)
    stripped,   \* main's `stripped`: the text the next stage sees
    trace,      \* history: the functions main has called, in order
    reads,      \* history: number of read attempts
    forwarded,  \* history: the text handed to Highlighter::highlight_to
    sink,       \* what reached standard output: "empty", "partial", "complete"
    err,        \* the Err main returned: "none", "read", "highlight"
    first,      \* UnwrapSpec: result of unwrap_codeblock(input)
    second      \* UnwrapSpec: result of unwrap_codeblock(first)

vars == <<pc, args, given, acquired, input, stripped, trace, reads,
          forwarded, sink, err, first, second>>

---------------------------------------------------------------------------
(* Bounds *)

\* longest text of UnwrapSpec, in pieces
MaxPieces == 6

\* longest text of Spec, in pieces
MaxPipelinePieces == 4

---------------------------------------------------------------------------
(* Characters and texts *)

BT  == "BT"
LF  == "\n"
CR  == "\r"
SP  == " "
ESC == "ESC"

\* the three-backtick literal of lines 124 and 125
Fence == <<BT, BT, BT>>

\* char::is_whitespace, on the characters of the model
IsWhitespace(c) == c \in {SP, CR, LF, "\t"}

RECURSIVE Flatten(_)
Flatten(ps) == IF ps = <<>> THEN <<>> ELSE Head(ps) \o Flatten(Tail(ps))

Range(s) == {s[i] : i \in 1..Len(s)}

TextsOf(pieces, n) ==
    {Flatten(ps) : ps \in UNION {[1..k -> pieces] : k \in 0..n}}

\* texts unwrap_codeblock is applied to in UnwrapSpec
UnwrapPieces == {Fence, <<BT>>, <<LF>>, <<CR>>, <<SP>>, <<"a">>}
UnwrapInputs == TextsOf(UnwrapPieces, MaxPieces)

\* texts read by main in Spec; <<ESC, "[", "a">> is a complete CSI sequence
PipelinePieces == {Fence, <<BT>>, <<LF>>, <<"a">>, <<ESC>>, <<ESC, "[", "a">>}
PipelineInputs == TextsOf(PipelinePieces, MaxPipelinePieces)

---------------------------------------------------------------------------
(* Rust's str operations, with offsets counted from 0 *)

Ok(t)   == [kind |-> "ok", val |-> t]
Panic   == [kind |-> "panic", val |-> <<>>]
NotRun  == [kind |-> "none", val |-> <<>>]

\* str::find(char): offset of the first occurrence, -1 for None
Find(s, c) ==
    IF \E i \in 1..Len(s) : s[i] = c
    THEN (CHOOSE i \in 1..Len(s) : s[i] = c /\ \A j \in 1..(i - 1) : s[j] # c) - 1
    ELSE -1

StartsWith(s, p) == Len(s) >= Len(p) /\ SubSeq(s, 1, Len(p)) = p

EndsWith(s, p) == Len(s) >= Len(p) /\ SubSeq(s, Len(s) - Len(p) + 1, Len(s)) = p

\* &s[lo..hi]: panics when lo > hi or hi > len
Slice(s, lo, hi) ==
    IF lo > hi \/ hi > Len(s) THEN Panic ELSE Ok(SubSeq(s, lo + 1, hi))

---------------------------------------------------------------------------
(* unwrap_codeblock, lines 118-133 *)

\* the array the loop of line 125 walks, in its order
ClosingForms == <<Fence, Fence \o <<LF>>, Fence \o <<CR, LF>>>>

\* mutant: the bare fence is taken to be the form that matched
MatchedEndFenceOnly(t) ==
    IF \E e \in 1..Len(ClosingForms) : EndsWith(t, ClosingForms[e]) THEN 1 ELSE 0

\* the loop of lines 125-129: the index of the first form that input ends
\* with, 0 when the loop falls through
MatchedEnd(t) ==
    IF \E e \in 1..Len(ClosingForms) : EndsWith(t, ClosingForms[e])
    THEN CHOOSE e \in 1..Len(ClosingForms) :
            /\ EndsWith(t, ClosingForms[e])
            /\ \A d \in 1..(e - 1) : ~EndsWith(t, ClosingForms[d])
    ELSE 0

\* mutant: only the space character counts as whitespace
TagHasNoSpace(tag) == \A i \in 1..Len(tag) : tag[i] # SP

\* the second conjunct of line 124: input[3..line_end].chars().all(..)
TagHasNoWhitespace(tag) == \A i \in 1..Len(tag) : ~IsWhitespace(tag[i])

\* the condition of line 124; && does not evaluate the slice unless the text
\* starts with the fence, and then line_end >= 3
OpeningMatches(t, line_end) ==
    StartsWith(t, Fence) /\ TagHasNoWhitespace(Slice(t, Len(Fence), line_end).val)

\* mutant: the opening line is removed although no closing form matched
unwrap_opening_only(t) ==
    LET line_end == Find(t, LF) IN
    IF line_end = -1 THEN Ok(t)
    ELSE IF OpeningMatches(t, line_end)
         THEN IF MatchedEnd(t) # 0
              THEN Slice(t, line_end + 1, Len(t) - Len(ClosingForms[MatchedEnd(t)]))
              ELSE Slice(t, line_end + 1, Len(t))
         ELSE Ok(t)

\* mutant: layers are removed until the text no longer matches
RECURSIVE unwrap_all_layers(_)
unwrap_all_layers(t) ==
    LET line_end == Find(t, LF) IN
    IF line_end = -1 THEN Ok(t)
    ELSE IF OpeningMatches(t, line_end) /\ MatchedEnd(t) # 0
         THEN LET r == Slice(t, line_end + 1, Len(t) - Len(ClosingForms[MatchedEnd(t)]))
              IN  IF r.kind = "ok" THEN unwrap_all_layers(r.val) ELSE r
         ELSE Ok(t)

unwrap_codeblock(t) ==
    LET line_end == Find(t, LF) IN
    IF line_end = -1 THEN Ok(t)
    ELSE IF OpeningMatches(t, line_end) /\ MatchedEnd(t) # 0
         THEN Slice(t, line_end + 1, Len(t) - Len(ClosingForms[MatchedEnd(t)]))
         ELSE Ok(t)

---------------------------------------------------------------------------
(* UnwrapSpec: unwrap_codeblock applied to a text, then to what it returned *)

Idle ==
    /\ args = [strip_ansi |-> TRUE, unwrap_codeblock |-> FALSE]
    /\ given = {} /\ acquired = <<>> /\ stripped = <<>> /\ trace = <<>>
    /\ reads = 0 /\ forwarded = <<>> /\ sink = "empty" /\ err = "none"

InitUnwrap ==
    /\ pc = "u_start"
    /\ input \in UnwrapInputs
    /\ first = NotRun /\ second = NotRun
    /\ Idle

ApplyOnce ==
    /\ pc = "u_start"
    /\ first' = unwrap_codeblock(input)
    /\ pc' = "u_once"
    /\ UNCHANGED <<args, given, acquired, input, stripped, trace, reads,
                   forwarded, sink, err, second>>

ApplyTwice ==
    /\ pc = "u_once" /\ first.kind = "ok"
    /\ second' = unwrap_codeblock(first.val)
    /\ pc' = "u_twice"
    /\ UNCHANGED <<args, given, acquired, input, stripped, trace, reads,
                   forwarded, sink, err, first>>

NextUnwrap == ApplyOnce \/ ApplyTwice

UnwrapSpec == InitUnwrap /\ [][NextUnwrap]_vars

---------------------------------------------------------------------------
(* Args::parse, lines 7-56 and 79: the options the pipeline reads *)

Options == {"-s", "-S", "-c", "-C"}

\* command lines naming each option at most once, in any order
CommandLines ==
    {argv \in UNION {[1..k -> Options] : k \in 0..Cardinality(Options)} :
        \A i, j \in 1..Len(argv) : argv[i] = argv[j] => i = j}

\* option a is on the command line and option b does not follow it
LastWins(argv, a, b) ==
    \E i \in 1..Len(argv) :
        argv[i] = a /\ \A j \in (i + 1)..Len(argv) : argv[j] # b

\* mutant: -S as a SetTrue flag, so that the value is off unless it is given
ParseStripAnsiSetTrue(argv) == LastWins(argv, "-S", "-s")

\* lines 18-30: strip_ansi is ArgAction::SetFalse on -S, so it is true unless
\* -S is given; -s overrides an earlier -S
ParseStripAnsi(argv) == ~LastWins(argv, "-S", "-s")

\* lines 32-43: unwrap_codeblock is set by -c; -C overrides an earlier -c
ParseUnwrapCodeblock(argv) == LastWins(argv, "-c", "-C")

ParseArgsOf(argv) ==
    [strip_ansi |-> ParseStripAnsi(argv),
     unwrap_codeblock |-> ParseUnwrapCodeblock(argv)]

---------------------------------------------------------------------------
(* strip_ansi_escapes::strip_str, called on line 98: the vte parser with a *)
(* performer that prints printable characters and line feeds and drops     *)
(* the rest.  On the characters of PipelineInputs: ESC opens an escape     *)
(* sequence from any state; after ESC, "[" opens a control sequence and    *)
(* any other printable character (0x30-0x7E) ends the escape sequence;     *)
(* in a control sequence any character of 0x40-0x7E is its final byte; a   *)
(* line feed is executed, and so written, in every state; a sequence left  *)
(* open at the end of the text writes nothing.                             *)

RECURSIVE StripRun(_, _)
StripRun(t, st) ==
    IF t = <<>> THEN <<>>
    ELSE LET c == Head(t) IN
         IF c = ESC THEN StripRun(Tail(t), "escape")
         ELSE IF c = LF THEN <<LF>> \o StripRun(Tail(t), st)
         ELSE IF st = "ground" THEN <<c>> \o StripRun(Tail(t), "ground")
         ELSE IF st = "escape" /\ c = "[" THEN StripRun(Tail(t), "csi")
         ELSE StripRun(Tail(t), "ground")

Strip(t) == StripRun(t, "ground")

---------------------------------------------------------------------------
(* main, lines 76-116 *)

\* mutant: the fence is matched on the stripped text
UnwrapAfterStrip(a, t) ==
    IF a.unwrap_codeblock
    THEN unwrap_codeblock(IF a.strip_ansi THEN Strip(t) ELSE t)
    ELSE Ok(t)

\* lines 91-95
UnwrapStageResult(a, t) == IF a.unwrap_codeblock THEN unwrap_codeblock(t) ELSE Ok(t)

\* lines 97-100
StripStageResult(a, t) == IF a.strip_ansi THEN Strip(t) ELSE t

\* mutant: a failed read is ignored and the run goes on with what it has
OnReadErrorContinue == "read"

\* the ? of lines 84 and 88: main returns the Err
OnReadError == "exit_failure"

Init ==
    /\ pc = "start"
    /\ args = [strip_ansi |-> TRUE, unwrap_codeblock |-> FALSE]
    /\ given = {}
    /\ acquired = <<>> /\ input = <<>> /\ stripped = <<>>
    /\ trace = <<>> /\ reads = 0 /\ forwarded = <<>>
    /\ sink = "empty" /\ err = "none"
    /\ first = NotRun /\ second = NotRun

\* line 79
ParseArgs ==
    /\ pc = "start"
    /\ \E argv \in CommandLines :
          /\ args' = ParseArgsOf(argv)
          /\ given' = Range(argv)
    /\ pc' = "parsed"
    /\ UNCHANGED <<acquired, input, stripped, trace, reads, forwarded, sink,
                   err, first, second>>

\* lines 80-89, the read succeeding: the whole file or standard input
ReadInputOk ==
    /\ pc = "parsed"
    /\ \E t \in PipelineInputs :
          /\ input' = t
          /\ acquired' = t
          /\ stripped' = t
    /\ reads' = reads + 1
    /\ pc' = "read"
    /\ UNCHANGED <<args, given, trace, forwarded, sink, err, first, second>>

\* lines 80-89, the open or the read failing
ReadInputErr ==
    /\ pc = "parsed"
    /\ reads' = reads + 1
    /\ err' = "read"
    /\ pc' = OnReadError
    /\ UNCHANGED <<args, given, acquired, input, stripped, trace, forwarded,
                   sink, first, second>>

\* lines 91-95; a panic of unwrap_codeblock ends the process
UnwrapStage ==
    /\ pc = "read"
    /\ LET r == UnwrapStageResult(args, input) IN
          /\ stripped' = IF r.kind = "ok" THEN r.val ELSE stripped
          /\ pc' = IF r.kind = "ok" THEN "unwrapped" ELSE "panicked"
    /\ trace' = IF args.unwrap_codeblock
                THEN Append(trace, "unwrap_codeblock") ELSE trace
    /\ UNCHANGED <<args, given, acquired, input, reads, forwarded, sink, err,
                   first, second>>

\* lines 97-100
StripStage ==
    /\ pc = "unwrapped"
    /\ stripped' = StripStageResult(args, stripped)
    /\ input' = IF args.strip_ansi THEN stripped' ELSE input
    /\ trace' = IF args.strip_ansi THEN Append(trace, "strip_str") ELSE trace
    /\ pc' = "stripped"
    /\ UNCHANGED <<args, given, acquired, reads, forwarded, sink, err, first,
                   second>>

\* lines 102-115, highlight_to returning Ok
HighlightOk ==
    /\ pc = "stripped"
    /\ forwarded' = stripped
    /\ trace' = Append(trace, "highlight_to")
    /\ sink' = "complete"
    /\ pc' = "exit_success"
    /\ UNCHANGED <<args, given, acquired, input, stripped, reads, err, first,
                   second>>

\* lines 102-115, highlight_to returning Err: the text is rejected before
\* anything is written, or the sink fails during the write
HighlightErr ==
    /\ pc = "stripped"
    /\ forwarded' = stripped
    /\ trace' = Append(trace, "highlight_to")
    /\ sink' \in {"empty", "partial"}
    /\ err' = "highlight"
    /\ pc' = "exit_failure"
    /\ UNCHANGED <<args, given, acquired, input, stripped, reads, first,
                   second>>

Next ==
    \/ ParseArgs
    \/ ReadInputOk
    \/ ReadInputErr
    \/ UnwrapStage
    \/ StripStage
    \/ HighlightOk
    \/ HighlightErr

Spec == Init /\ [][Next]_vars

---------------------------------------------------------------------------
(* The vocabulary of the properties, stated on texts without the code's    *)
(* operators                                                               *)

IsPrefix(p, t) == Len(p) <= Len(t) /\ \A i \in 1..Len(p) : t[i] = p[i]

IsSuffix(p, t) ==
    Len(p) <= Len(t) /\ \A i \in 1..Len(p) : t[Len(t) - Len(p) + i] = p[i]

HasLF(t) == \E i \in 1..Len(t) : t[i] = LF

\* position (from 1) of the first line feed of a text that has one
FirstLF(t) == CHOOSE i \in 1..Len(t) : t[i] = LF /\ \A j \in 1..(i - 1) : t[j] # LF

\* the three closing forms: fence, fence + LF, fence + CR LF
TheForms == {Fence, Fence \o <<LF>>, Fence \o <<CR, LF>>}

TailMatches(t) == \E f \in TheForms : IsSuffix(f, t)

\* the longest closing form that is a suffix of a text whose tail matches
LongestForm(t) ==
    CHOOSE f \in TheForms :
        /\ IsSuffix(f, t)
        /\ \A g \in TheForms : IsSuffix(g, t) => Len(g) <= Len(f)

\* space, tab, carriage return, line feed
Blank == {" ", "\t", "\r", "\n"}

\* a whitespace character lies between the opening fence and the first LF
WhitespaceInFirstLine(t) ==
    \E i \in (Len(Fence) + 1)..(FirstLF(t) - 1) : t[i] \in Blank

\* fence, zero or more non-whitespace characters, line break
WellFormedOpening(t) ==
    IsPrefix(Fence, t) /\ HasLF(t) /\ ~WhitespaceInFirstLine(t)

Matches(t) == WellFormedOpening(t) /\ TailMatches(t)

\* what lies after the first line's terminator and before the closing form
Between(t) == SubSeq(t, FirstLF(t) + 1, Len(t) - Len(LongestForm(t)))

Applied == pc \in {"u_once", "u_twice"}

---------------------------------------------------------------------------
(* Properties of unwrap_codeblock, checked under UnwrapSpec *)

\* C1: unwrap_codeblock is total: on every text it returns a value, never
\* slicing with a start beyond the end.
C1_Total == Applied => first.kind = "ok"

\* C2: on every text with a well-formed opening line and a tail matching a
\* closing form, the result is exactly the text between the two.
C2_ExactBody == (Applied /\ Matches(input)) => first = Ok(Between(input))

\* C4: no partial unwrap: a text that does not start with the fence, or has
\* no line feed, or whose tail matches no closing form, is returned unchanged.
C4_NoPartialUnwrap ==
    (Applied /\ (~IsPrefix(Fence, input) \/ ~HasLF(input) \/ ~TailMatches(input)))
        => first = Ok(input)

\* C4 witness: an opening line is present, no closing form is, and the text
\* came back whole.
C4_Witness ==
    /\ pc = "u_once"
    /\ WellFormedOpening(input) /\ ~TailMatches(input)
    /\ Len(input) > FirstLF(input)
    /\ first = Ok(input)

\* C5: whitespace between the opening fence and the first LF makes the text
\* come back unchanged whatever its tail; so a CR LF opening line does, even
\* with a fence + CR LF tail.
C5_WhitespaceInTag ==
    (Applied /\ IsPrefix(Fence, input) /\ HasLF(input) /\ WhitespaceInFirstLine(input))
        => first = Ok(input)

\* C5 witness: opening line ends in CR LF, tail is fence + CR LF.
C5_Witness ==
    /\ pc = "u_once"
    /\ input = Fence \o <<CR, LF>> \o Fence \o <<CR, LF>>
    /\ first = Ok(input)

\* a block fenced twice, and the same block fenced once
OnceFenced  == Fence \o <<LF>> \o Fence
TwiceFenced == Fence \o <<LF>> \o OnceFenced \o Fence

\* C6: one layer only, not idempotent: the twice-fenced block loses one layer
\* per application, and a result that does not itself match is left alone by
\* the second application.
C6_OneLayer ==
    /\ (Applied /\ input = TwiceFenced) => first = Ok(OnceFenced)
    /\ (pc = "u_twice" /\ input = TwiceFenced) => (second = Ok(<<>>) /\ second # first)
    /\ (pc = "u_twice" /\ ~Matches(first.val)) => second = first

\* C6 witness: a second application that changed the result of the first.
C6_Witness == pc = "u_twice" /\ second.kind = "ok" /\ second # first

\* C9: when the text matches, the closing form the loop accepts is the
\* longest form that is a suffix, and a returned result keeps nothing of it.
C9_LongestForm ==
    (Applied /\ Matches(input)) =>
        /\ MatchedEnd(input) # 0
        /\ ClosingForms[MatchedEnd(input)] = LongestForm(input)
        /\ first.kind = "ok" => first.val = Between(input)

\* C9 witness: the tail is fence + CR LF and the whole of it was removed.
C9_Witness ==
    /\ pc = "u_once"
    /\ Matches(input) /\ IsSuffix(Fence \o <<CR, LF>>, input)
    /\ first = Ok(<<"a">>)

---------------------------------------------------------------------------
(* Properties of the run of main, checked under Spec *)

Ended == pc \in {"exit_success", "exit_failure", "panicked"}

HighlighterCalls == Cardinality({i \in 1..Len(trace) : trace[i] = "highlight_to"})

\* U and S of the pipeline contract, U from the vocabulary above
U(a, t) == IF a.unwrap_codeblock /\ Matches(t) THEN Between(t) ELSE t
S(a, t) == IF a.strip_ansi THEN Strip(t) ELSE t

\* the calls main makes for the flags a, in the fixed order
StagesOf(a) ==
    (IF a.unwrap_codeblock THEN <<"unwrap_codeblock">> ELSE <<>>)
    \o (IF a.strip_ansi THEN <<"strip_str">> ELSE <<>>)
    \o <<"highlight_to">>

\* what holds of every run in which the highlighter is reached
HighlightedInOrder ==
    HighlighterCalls > 0 =>
        /\ HighlighterCalls = 1
        /\ trace = StagesOf(args)
        /\ forwarded = S(args, U(args, acquired))

\* C3: every run that acquired its input runs unwrap, strip, highlight in
\* that order, hands S(U(input)) to the highlighter, and invokes the
\* highlighter exactly once.
C3_FixedOrder ==
    (Ended /\ err # "read") =>
        /\ HighlighterCalls = 1
        /\ trace = StagesOf(args)
        /\ forwarded = S(args, U(args, acquired))

\* C7: without options strip_ansi is on and unwrap_codeblock is off; only -S
\* turns the first off and only -c turns the second on; once parsed, the
\* configuration never changes.
C7_Config ==
    /\ [](pc # "start" =>
            /\ given = {} => (args.strip_ansi /\ ~args.unwrap_codeblock)
            /\ ~args.strip_ansi => "-S" \in given
            /\ args.unwrap_codeblock => "-c" \in given)
    /\ [][pc # "start" => args' = args]_vars

\* C7 witness: a run parsed from the empty command line has reached the
\* strip stage with the defaults.
C7_Witness ==
    /\ pc = "stripped" /\ given = {}
    /\ args = [strip_ansi |-> TRUE, unwrap_codeblock |-> FALSE]
    /\ trace = <<"strip_str">>

\* C8: a failed read ends the process with a failure at once: no stage and
\* no highlighter call, nothing written, one read attempt; and the process
\* succeeds only after a successful read and a successful highlight.
C8_ReadFailure ==
    /\ reads <= 1
    /\ err = "read" =>
          /\ pc = "exit_failure"
          /\ trace = <<>> /\ forwarded = <<>> /\ sink = "empty"
          /\ reads = 1
    /\ pc = "exit_success" =>
          /\ err = "none" /\ reads = 1
          /\ HighlighterCalls = 1 /\ sink = "complete"

\* C8 witness: the run that ended on a failed read.
C8_Witness == pc = "exit_failure" /\ err = "read" /\ reads = 1 /\ trace = <<>>

\* a body that is an escape character: stripped after unwrapping nothing is
\* left of it, stripped before it takes the first backtick of the closing fence
OrderExample == Fence \o <<LF, ESC>> \o Fence

\* a fence that shows only once the control sequence before it is stripped
HiddenFence == <<ESC, "[", "a">> \o OnceFenced

BothFlags == args.strip_ansi /\ args.unwrap_codeblock

HiddenFenceForwarded ==
    /\ pc = "exit_success" /\ BothFlags
    /\ acquired = HiddenFence
    /\ forwarded = OnceFenced

===========================================================================
